---- MODULE Spec2Model ----
(***************************************************************************)
(* Model of lib/adclient.js (node-adclient): an LDAP/Active-Directory      *)
(* authentication client built from nested completion callbacks.           *)
(*                                                                         *)
(* Strings are sequences of one-character strings, so that splitting,      *)
(* lower-casing and trimming are computed the way the code computes them.  *)
(* A value that may be undefined is a record [def, s].                     *)
(***************************************************************************)
EXTENDS Integers, Sequences, FiniteSets, TLC

VARIABLES
    masterClient,   \* this.masterClient: FALSE, or TRUE once a client exists
    masterBound,    \* this.masterBound
    userClient,     \* this.userClient
    userBound,      \* this.userBound
    params,         \* this.params: url and userSearchAttributes
    call,           \* the call in progress, with what its caller observed
    log,            \* the calls begun so far, oldest first
    pending,        \* directory requests in flight, each with its callback
    created,        \* number of ldapjs.createClient calls, per role
    probe,          \* input of the pure function under study
    answer          \* what the function delivered for probe

vars == <<masterClient, masterBound, userClient, userBound, params, call, log,
          pending, created, probe, answer>>

(***************************************************************************)
(* Bounds                                                                  *)
(***************************************************************************)
MaxDnLen == 6
MaxUrls == 3
MaxMembers == 2
MaxCalls == 3
MaxEntries == 2

(***************************************************************************)
(* Values                                                                  *)
(***************************************************************************)
Undefined == [def |-> FALSE, s |-> <<>>]
Str(s) == [def |-> TRUE, s |-> s]
NoErr == "none"

DnAlphabet == {"C", "n", "=", ",", "J"}

RECURSIVE SeqsUpTo(_, _)
SeqsUpTo(S, n) ==
    IF n = 0 THEN {<<>>}
    ELSE LET shorter == SeqsUpTo(S, n - 1)
         IN  shorter \cup {Append(q, x) : q \in {t \in shorter : Len(t) = n - 1}, x \in S}

(***************************************************************************)
(* underscore.string helpers mixed into _ (line 4)                         *)
(***************************************************************************)
LowerCh(ch) ==
    CASE ch = "C" -> "c"
      [] ch = "N" -> "n"
      [] ch = "J" -> "j"
      [] OTHER -> ch

\* String.prototype.toLowerCase
toLowerCase(s) == [i \in DOMAIN s |-> LowerCh(s[i])]

\* _.isBlank: /^\s*$/
isBlank(s) == \A i \in DOMAIN s : s[i] = " "

RECURSIVE ltrim(_, _)
\* _.ltrim(str, characters): removes every leading character that is in the
\* character class built from characters
ltrim(s, chars) ==
    IF s # <<>> /\ Head(s) \in chars THEN ltrim(Tail(s), chars) ELSE s

RECURSIVE rtrim(_, _)
rtrim(s, chars) ==
    IF s # <<>> /\ s[Len(s)] \in chars THEN rtrim(SubSeq(s, 1, Len(s) - 1), chars) ELSE s

\* _.trim(str, characters)
trim(s, chars) == rtrim(ltrim(s, chars), chars)

RECURSIVE split(_, _)
\* String.prototype.split on a one-character delimiter
split(s, d) ==
    IF \E i \in DOMAIN s : s[i] = d
    THEN LET i == CHOOSE k \in DOMAIN s : s[k] = d /\ \A m \in 1..(k - 1) : s[m] # d
         IN  <<SubSeq(s, 1, i - 1)>> \o split(SubSeq(s, i + 1, Len(s)), d)
    ELSE <<s>>

\* _.words(str, delimiter)
words(s, d) == IF isBlank(s) THEN <<>> ELSE split(trim(s, {d}), d)

\* _.startsWith(str, starts)
startsWith(s, p) == Len(s) >= Len(p) /\ SubSeq(s, 1, Len(p)) = p

RECURSIVE FlatMap(_, _)
FlatMap(F(_), q) == IF q = <<>> THEN <<>> ELSE F(Head(q)) \o FlatMap(F, Tail(q))

(***************************************************************************)
(* getUrl: the sequence of callback invocations for params.url and the     *)
(* value r that _.random(0, length) returned                               *)
(***************************************************************************)
UrlArr(q) == [type |-> "array", s |-> "", list |-> q]
UrlStr(s) == [type |-> "string", s |-> s, list |-> <<>>]
UrlOther == [type |-> "other", s |-> "", list |-> <<>>]

\* _.compact: drops the falsy entries ("" among strings)
compact(q) == SelectSeq(q, LAMBDA u : u # "")

\* the values _.random(0, paramUrl.length) can return: both ends inclusive
random(lo, hi) == lo..hi

\* paramUrl[i] for an array of strings, as a possibly-undefined value
At(q, i) == IF i + 1 \in DOMAIN q THEN Str(q[i + 1]) ELSE Undefined

getUrl(paramUrl, r) ==
    IF paramUrl.type = "array"
    THEN <<[err |-> NoErr, val |-> At(compact(paramUrl.list), r)]>>
    ELSE IF paramUrl.type = "string"
    THEN <<[err |-> NoErr, val |-> Str(paramUrl.s)]>>
    ELSE <<[err |-> "No valid url given", val |-> Undefined]>>

RandomsFor(paramUrl) ==
    IF paramUrl.type = "array" THEN random(0, Len(compact(paramUrl.list))) ELSE {0}

(***************************************************************************)
(* extractCNFromDN: the sequence of callback invocations for dn            *)
(***************************************************************************)
CnPrefix == <<"c", "n", "=">>

CnCallback(dndata) ==
    IF startsWith(dndata, CnPrefix)
    THEN <<[err |-> NoErr, val |-> Str(ltrim(dndata, {"c", "n", "="}))]>>
    ELSE <<>>

extractCNFromDN(dn) ==
    IF dn.def
    THEN FlatMap(CnCallback, words(toLowerCase(dn.s), ","))
    ELSE <<[err |-> "No DN given", val |-> Undefined]>>

(***************************************************************************)
(* The memberObjects built from the single group entry (lines 148-163).    *)
(* member is absent, one DN string, or a list of DN strings.               *)
(***************************************************************************)
MemberAbsent == [type |-> "absent", list |-> <<>>]
MemberString(dn) == [type |-> "string", list |-> <<dn>>]
MemberList(q) == [type |-> "array", list |-> q]

DescriptorsOf(value) ==
    LET cbs == extractCNFromDN(Str(value))
    IN  [i \in DOMAIN cbs |-> [cn |-> cbs[i].val, dn |-> value]]

memberObjects(member) ==
    IF member.type = "absent" THEN <<>> ELSE FlatMap(DescriptorsOf, member.list)

(***************************************************************************)
(* The instance and the directory it talks to.  Calls on one instance are  *)
(* serialized: a call begins when no directory request is in flight.       *)
(***************************************************************************)
\* distinguished names the directory holds as group members
DnJ == <<"C", "n", "=", "J">>
DnNJ == <<"C", "n", "=", "n", "J">>
DnNoCn == <<"J", "=", "J">>
Usernames == {Str(<<"j">>), Str(<<"n", "j">>)}
UserDns == {DnJ}

\* a directory entry: its member attribute and its other attributes as a set
\* of <<key, value>> pairs
Entry(member, obj) == [member |-> member, obj |-> obj]
GroupEntries ==
    {Entry(m, {}) : m \in {MemberAbsent, MemberString(DnJ),
                           MemberList(<<DnNJ, DnNoCn>>)}}
UserEntries ==
    {Entry(MemberAbsent, {<<"cn", "j">>, <<"mail", "m">>, <<"pwd", "p">>}),
     Entry(MemberAbsent, {<<"cn", "j">>})}

UrlConfigs ==
    {UrlStr("a"), UrlArr(<<>>), UrlArr(<<"a", "", "b">>), UrlOther}
AttrConfigs == {{"cn", "mail"}, {"mail"}}

\* what a callback hands to its caller
NoResult == [kind |-> "undefined", members |-> <<>>, user |-> {}]
Members(q) == [kind |-> "members", members |-> q, user |-> {}]
UserObject(o) == [kind |-> "user", members |-> <<>>, user |-> o]

\* a pick that hands the whole entry on
pickAll(obj, keys) == obj

\* _.pick(object, keys)
pick(obj, keys) == {kv \in obj : kv[1] \in keys}

\* a lookup that takes every member for the user, whatever its cn
whereAnyCn(result, username) == result.members

\* _.where(result, {cn: username}); an undefined result has no elements
where(result, username) ==
    SelectSeq(result.members, LAMBDA m : m.cn = username)

NewCall(kind, username) ==
    [kind |-> kind, username |-> username,
     outcomes |-> <<>>,        \* what the caller's callback received, in order
     closes |-> 0,             \* close invocations
     closeDone |-> 0,          \* close callbacks run
     masterBinds |-> 0,        \* masterClient.bind requests
     masterBindOk |-> FALSE,   \* the directory accepted the master bind
     masterUnbinds |-> 0,      \* masterClient.unbind requests
     userBinds |-> 0,          \* userClient.bind requests
     userBindOk |-> FALSE,
     userBindFailed |-> FALSE,
     userUnbinds |-> 0,        \* userClient.unbind requests
     resolved |-> FALSE,       \* authUser's member lookup ended without error
     members |-> <<>>,         \* the members it was then given
     userMatches |-> -1,       \* entries of a user search that ended with 0
     userEntry |-> {},         \* the entry of a user search with one entry
     groupSearches |-> 0,      \* masterClient.search requests
     groupMatches |-> -1,      \* entries of a group search that ended with 0
     masterBindFailed |-> FALSE,
     authDn |-> <<>>,          \* what authUserDn's callback received, in order
     held |-> FALSE,           \* a master bind was accepted, no close since
     heldAtStart |-> FALSE,    \* held, when the call began
     thrown |-> FALSE]         \* a TypeError escaped from the call's code

Op(op, stage, rs, dn, k, err, res) ==
    [op |-> op, stage |-> stage, rs |-> rs, dn |-> dn, k |-> k,
     err |-> err, res |-> res]
SimpleOp(op) == Op(op, "cb", <<>>, <<>>, "", NoErr, NoResult)

\* the instance as a value, threaded through the synchronous callbacks
Cur ==
    [mc |-> masterClient, mb |-> masterBound, uc |-> userClient,
     ub |-> userBound, call |-> call, pending |-> pending,
     created |-> created, exc |-> FALSE]

\* a TypeError is thrown and unwinds the synchronous callers
Throw(s) == [s EXCEPT !.exc = TRUE]

\* the caller's callback is invoked with (err, res)
Deliver(s, err, res) ==
    [s EXCEPT !.call.outcomes =
        Append(@, [err |-> err, res |-> res,
                   closed |-> s.call.closeDone,
                   munb |-> s.call.masterUnbinds,
                   uunb |-> s.call.userUnbinds])]

\* the callbacks handed to close: the caller's own (a direct close call), the
\* one of line 225 and the one of line 230 with its captured (err, userObject)
closeCallback(s, k, cerr, e, r) ==
    LET s0 == [s EXCEPT !.call.closeDone = @ + 1]
    IN  IF k = "caller" THEN Deliver(s0, cerr, NoResult)
        ELSE IF k = "notFound" THEN Deliver(s0, "Error: User not found", NoResult)
        ELSE LET s1 == IF e # NoErr THEN Deliver(s0, e, r) ELSE s0
             IN  Deliver(s1, NoErr, r)

\* a close that answers only through the unbind it requests
closeSilentUnlessBound(s, k, e, r) ==
    LET s0 == [s EXCEPT !.call.closes = @ + 1, !.call.held = FALSE]
    IN  IF s0.mb
        THEN [s0 EXCEPT !.pending = @ \cup {Op("masterUnbind", "cb", <<>>, <<>>, k, e, r)},
                        !.call.masterUnbinds = @ + 1]
        ELSE s0

close(s, k, e, r) ==
    LET s0 == [s EXCEPT !.call.closes = @ + 1, !.call.held = FALSE]
        s1 == IF s0.mb
              THEN [s0 EXCEPT !.pending = @ \cup {Op("masterUnbind", "cb", <<>>, <<>>, k, e, r)},
                              !.call.masterUnbinds = @ + 1]
              ELSE s0
    IN  closeCallback(s1, k, NoErr, e, r)

\* ldapjs.createClient({url: u}) refuses a missing url with a TypeError
createClient(s, role, u) ==
    IF u.def /\ u.s # ""
    THEN [s EXCEPT !.created[role] = @ + 1]
    ELSE Throw(s)

\* a createClients that makes both clients anew each time
createClientsAnew(s, u) ==
    IF u.err # NoErr THEN s
    ELSE LET t == createClient(s, "master", u.val)
         IN  IF t.exc THEN t
             ELSE [createClient(t, "user", u.val) EXCEPT !.mc = TRUE, !.uc = TRUE]

\* createClients up to its callback, for the answer u of getUrl
createClients(s, u) ==
    IF u.err # NoErr THEN s
    ELSE LET s1 == IF s.mc = FALSE
                   THEN LET t == createClient(s, "master", u.val)
                        IN  IF t.exc THEN t ELSE [t EXCEPT !.mc = TRUE]
                   ELSE s
         IN  IF s1.exc THEN s1
             ELSE IF s1.uc = FALSE
             THEN LET t == createClient(s1, "user", u.val)
                  IN  IF t.exc THEN t ELSE [t EXCEPT !.uc = TRUE]
             ELSE s1

\* the callback authUserDn was given
authUserDnCallback(s, err, userObject) ==
    LET s0 == [s EXCEPT !.call.authDn =
                   Append(@, [err |-> err, res |-> userObject,
                              uunb |-> s.call.userUnbinds])]
    IN  IF s0.call.kind = "authUserDn"
        THEN Deliver(s0, err, userObject)
        ELSE close(s0, "afterAuth", err, userObject)

authUserDn(s, userDn, u) ==
    LET s1 == createClients(s, u)
        s2 == IF s1.exc \/ u.err = NoErr THEN s1
              ELSE authUserDnCallback(s1, u.err, NoResult)
    IN  IF s2.exc THEN s2
        ELSE IF s2.uc = FALSE THEN Throw(s2)
        ELSE [s2 EXCEPT !.pending = @ \cup {Op("userBind", "cb", <<>>, userDn, "", NoErr, NoResult)},
                        !.call.userBinds = @ + 1]

\* the callback authUser hands to getMembersOfGroupDN (lines 221-236)
authUserCallback(s, err, result, u) ==
    LET s1 == IF err # NoErr THEN Deliver(s, err, NoResult) ELSE s
        user == where(result, s.call.username)
        s2 == IF err = NoErr
              THEN [s1 EXCEPT !.call.resolved = TRUE,
                              !.call.members = result.members]
              ELSE s1
    IN  IF user = <<>>
        THEN close(s2, "notFound", NoErr, NoResult)
        ELSE authUserDn(s2, user[1].dn, u)

\* the callback getMembersOfGroupDN was given
getMembersCallback(s, err, result, u) ==
    IF s.call.kind = "getMembersOfGroupDN"
    THEN Deliver(s, err, result)
    ELSE authUserCallback(s, err, result, u)

\* the callback getMembersOfGroupDN hands to bindMaster (lines 121-128)
getMembersBound(s, err, u) ==
    LET s1 == IF err # NoErr THEN getMembersCallback(s, err, NoResult, u) ELSE s
    IN  IF s1.exc THEN s1
        ELSE IF s1.mc = FALSE THEN Throw(s1)
        ELSE [s1 EXCEPT !.pending = @ \cup {SimpleOp("groupSearch")},
                        !.call.groupSearches = @ + 1]

\* a callback that marks the master bound whatever bindMaster reports
bindMasterCallbackMarksBound(s, err, u) ==
    IF s.call.kind = "bindMaster"
    THEN Deliver([s EXCEPT !.mb = TRUE], err, NoResult)
    ELSE getMembersBound([s EXCEPT !.mb = TRUE], err, u)

\* the callback bindMaster was given
bindMasterCallback(s, err, u) ==
    IF s.call.kind = "bindMaster"
    THEN Deliver(s, err, NoResult)
    ELSE getMembersBound(s, err, u)

bindMaster(s, u) ==
    LET s1 == createClients(s, u)
        s2 == IF s1.exc \/ u.err = NoErr THEN s1
              ELSE bindMasterCallback(s1, u.err, u)
    IN  IF s2.exc THEN s2
        ELSE IF s2.mb THEN bindMasterCallback(s2, NoErr, u)
        ELSE IF s2.mc = FALSE THEN Throw(s2)
        ELSE [s2 EXCEPT !.pending = @ \cup {SimpleOp("masterBind")},
                        !.call.masterBinds = @ + 1]

\* the answers getUrl can give for the configured url
Urls == {getUrl(params.url, r)[1] : r \in RandomsFor(params.url)}
\* a callback chain that cannot reach createClients is given no url
NoUrl == [err |-> NoErr, val |-> Undefined]

\* the step is over: an exception that reached the top of the stack is
\* recorded with the call
Commit(t) ==
    /\ masterClient' = t.mc
    /\ masterBound' = t.mb
    /\ userClient' = t.uc
    /\ userBound' = t.ub
    /\ call' = [t.call EXCEPT !.thrown = @ \/ t.exc]
    /\ pending' = t.pending
    /\ created' = t.created
    /\ UNCHANGED <<params, probe, answer>>

\* a new call begins and replaces the record of the one before it
Begin(kind, username) ==
    [Cur EXCEPT !.call = [NewCall(kind, username) EXCEPT
                              !.held = call.held, !.heldAtStart = call.held]]
CanCall == pending = {} /\ Len(log) < MaxCalls

(***************************************************************************)
(* Calls made on the instance                                              *)
(***************************************************************************)
CallAuthUser ==
    /\ CanCall
    /\ \E username \in Usernames, u \in Urls :
         Commit(bindMaster(Begin("authUser", username), u))
    /\ log' = Append(log, "authUser")

CallGetMembersOfGroupDN ==
    /\ CanCall
    /\ \E u \in Urls :
         Commit(bindMaster(Begin("getMembersOfGroupDN", Undefined), u))
    /\ log' = Append(log, "getMembersOfGroupDN")

CallBindMaster ==
    /\ CanCall
    /\ \E u \in Urls :
         Commit(bindMaster(Begin("bindMaster", Undefined), u))
    /\ log' = Append(log, "bindMaster")

CallAuthUserDn ==
    /\ CanCall
    /\ \E dn \in UserDns, u \in Urls :
         Commit(authUserDn(Begin("authUserDn", Undefined), dn, u))
    /\ log' = Append(log, "authUserDn")

CallClose ==
    /\ CanCall
    /\ Commit(close(Begin("close", Undefined), "caller", NoErr, NoResult))
    /\ log' = Append(log, "close")

(***************************************************************************)
(* Answers of the directory, each running the callback the code registered *)
(***************************************************************************)
Without(op) == [Cur EXCEPT !.pending = @ \ {op}]
Requeue(s, op, new) == [s EXCEPT !.pending = (@ \ {op}) \cup {new}]

BindErrors == {NoErr, "InvalidCredentialsError"}
SearchErrors == {NoErr, "SearchError"}
Statuses == {0, 32}
StatusText(n) == IF n = 32 THEN "Status of AD search was32" ELSE "Status of AD search was"

\* masterClient.bind answers: bindMaster's callback runs (line 89)
MasterBindReply ==
    /\ \E op \in pending, err \in BindErrors :
         /\ op.op = "masterBind"
         /\ LET s0 == Without(op)
                s1 == IF err = NoErr
                      THEN [s0 EXCEPT !.call.masterBindOk = TRUE,
                                      !.call.held = TRUE]
                      ELSE [s0 EXCEPT !.call.masterBindFailed = TRUE,
                                      !.call.held = FALSE]
            IN  Commit(bindMasterCallback(s1, err, NoUrl))
    /\ UNCHANGED log

\* masterClient.search answers (lines 128-133): with an error there is no
\* searchResult, and searchResult.on throws after the callback has run
GroupSearchReply ==
    /\ \E op \in pending, err \in SearchErrors :
         /\ op.op = "groupSearch" /\ op.stage = "cb"
         /\ IF err # NoErr
            THEN Commit(Throw(getMembersCallback(Without(op), err, NoResult, NoUrl)))
            ELSE Commit(Requeue(Cur, op, [op EXCEPT !.stage = "stream"]))
    /\ UNCHANGED log

\* 'searchEntry' of the group search (lines 136-138)
GroupSearchEntry ==
    /\ \E op \in pending, e \in GroupEntries :
         /\ op.op = "groupSearch" /\ op.stage = "stream"
         /\ Len(op.rs) < MaxEntries
         /\ Commit(Requeue(Cur, op, [op EXCEPT !.rs = Append(@, e)]))
    /\ UNCHANGED log

\* 'error' of the group search (lines 131-133)
GroupSearchError ==
    /\ \E op \in pending :
         /\ op.op = "groupSearch" /\ op.stage = "stream"
         /\ Commit(getMembersCallback(Without(op), "SearchError", NoResult, NoUrl))
    /\ UNCHANGED log

\* a switch that takes the first entry of however many there are
groupMatchedFirst(s, rs, u) ==
    IF Len(rs) = 0
    THEN getMembersCallback(s, NoErr, NoResult, u)
    ELSE getMembersCallback(s, NoErr, Members(memberObjects(rs[1].member)), u)

\* the switch on resultSet.length of the group search (lines 144-166)
groupMatched(s, rs, u) ==
    IF Len(rs) = 0
    THEN getMembersCallback(s, NoErr, NoResult, u)
    ELSE IF Len(rs) = 1
    THEN getMembersCallback(s, NoErr, Members(memberObjects(rs[1].member)), u)
    ELSE getMembersCallback(s, "Error: unexpected number of matches", NoResult, u)

\* 'end' of the group search (lines 140-167)
GroupSearchEnd ==
    /\ \E op \in pending, status \in Statuses, u \in Urls :
         /\ op.op = "groupSearch" /\ op.stage = "stream"
         /\ LET s0 == Without(op)
            IN  IF status # 0
                THEN Commit(getMembersCallback(s0, StatusText(status), NoResult, u))
                ELSE Commit(groupMatched(
                         [s0 EXCEPT !.call.groupMatches = Len(op.rs)], op.rs, u))
    /\ UNCHANGED log

\* userClient.bind answers (lines 180-187)
UserBindReply ==
    /\ \E op \in pending, err \in BindErrors :
         /\ op.op = "userBind"
         /\ LET s0 == Without(op)
                s1 == IF err = NoErr
                      THEN [s0 EXCEPT !.call.userBindOk = TRUE]
                      ELSE authUserDnCallback(
                               [s0 EXCEPT !.call.userBindFailed = TRUE], err, NoResult)
            IN  Commit([s1 EXCEPT !.pending = @ \cup {[op EXCEPT !.op = "userSearch"]}])
    /\ UNCHANGED log

\* userClient.search answers (lines 187-191)
UserSearchReply ==
    /\ \E op \in pending, err \in SearchErrors :
         /\ op.op = "userSearch" /\ op.stage = "cb"
         /\ IF err # NoErr
            THEN Commit(Throw(authUserDnCallback(Without(op), err, NoResult)))
            ELSE Commit(Requeue(Cur, op, [op EXCEPT !.stage = "stream"]))
    /\ UNCHANGED log

\* 'searchEntry' of the user search (lines 194-196)
UserSearchEntry ==
    /\ \E op \in pending, e \in UserEntries :
         /\ op.op = "userSearch" /\ op.stage = "stream"
         /\ Len(op.rs) < MaxEntries
         /\ Commit(Requeue(Cur, op, [op EXCEPT !.rs = Append(@, e)]))
    /\ UNCHANGED log

\* 'error' of the user search (lines 189-191)
UserSearchError ==
    /\ \E op \in pending :
         /\ op.op = "userSearch" /\ op.stage = "stream"
         /\ Commit(authUserDnCallback(Without(op), "SearchError", NoResult))
    /\ UNCHANGED log

\* the switch on resultSet.length of the user search (lines 202-210)
userMatched(s, rs) ==
    IF Len(rs) = 0
    THEN authUserDnCallback(s, NoErr, NoResult)
    ELSE IF Len(rs) = 1
    THEN authUserDnCallback(s, NoErr,
             UserObject(pick(rs[1].obj, params.userSearchAttributes)))
    ELSE authUserDnCallback(s, "Error: unexpected number of matches", NoResult)

\* an 'end' handler that answers at once, leaving the user client bound
userSearchEndStillBound(s, op, status) ==
    IF status # 0
    THEN authUserDnCallback([s EXCEPT !.pending = @ \ {op}], StatusText(status), NoResult)
    ELSE userMatched([s EXCEPT !.pending = @ \ {op}], op.rs)

\* the 'end' handler of the user search for the request op (lines 197-213)
userSearchEnd(s, op, status) ==
    IF status # 0
    THEN authUserDnCallback([s EXCEPT !.pending = @ \ {op}], StatusText(status), NoResult)
    ELSE Requeue([s EXCEPT !.call.userUnbinds = @ + 1],
                 op, [op EXCEPT !.op = "userUnbind"])

\* 'end' of the user search (lines 197-213)
UserSearchEnd ==
    /\ \E op \in pending, status \in Statuses :
         /\ op.op = "userSearch" /\ op.stage = "stream"
         /\ Commit(userSearchEnd(Cur, op, status))
    /\ UNCHANGED log

\* an unbind answers: the callback of line 201 for the user client, the one of
\* line 98 for the master client
UnbindReply ==
    /\ \E op \in pending, err \in {NoErr, "UnbindError"} :
         /\ op.op \in {"userUnbind", "masterUnbind"}
         /\ LET s0 == Without(op)
                s1 == [s0 EXCEPT !.call.userMatches = Len(op.rs),
                                 !.call.userEntry =
                                     IF Len(op.rs) = 1 THEN op.rs[1].obj ELSE @]
            IN  IF op.op = "masterUnbind"
                THEN Commit(closeCallback([s0 EXCEPT !.mb = FALSE], op.k, err, op.err, op.res))
                ELSE Commit(userMatched(s1, op.rs))
    /\ UNCHANGED log

(***************************************************************************)
(* The instance after construction (lines 42-48)                           *)
(***************************************************************************)
NoProbe == [fn |-> "none", url |-> UrlOther, dn |-> Undefined, member |-> MemberAbsent]
NoAnswer == [done |-> FALSE, cbs |-> <<>>, members |-> <<>>]

adClient ==
    /\ masterClient = FALSE
    /\ masterBound = FALSE
    /\ userClient = FALSE
    /\ userBound = FALSE
    /\ call = NewCall("none", Undefined)
    /\ log = <<>>
    /\ pending = {}
    /\ created = [master |-> 0, user |-> 0]

Init ==
    /\ adClient
    /\ params \in [url : UrlConfigs, userSearchAttributes : AttrConfigs]
    /\ probe = NoProbe
    /\ answer = NoAnswer

Next ==
    \/ CallAuthUser
    \/ CallGetMembersOfGroupDN
    \/ CallBindMaster
    \/ CallAuthUserDn
    \/ CallClose
    \/ MasterBindReply
    \/ GroupSearchReply
    \/ GroupSearchEntry
    \/ GroupSearchError
    \/ GroupSearchEnd
    \/ UserBindReply
    \/ UserSearchReply
    \/ UserSearchEntry
    \/ UserSearchError
    \/ UserSearchEnd
    \/ UnbindReply

Spec == Init /\ [][Next]_vars

TypeOK ==
    /\ masterClient \in BOOLEAN /\ userClient \in BOOLEAN
    /\ masterBound \in BOOLEAN /\ userBound \in BOOLEAN
    /\ Len(log) <= MaxCalls

(***************************************************************************)
(* The pure functions on their own: the input is drawn at the start and    *)
(* one step applies the function to it                                     *)
(***************************************************************************)
\* member DNs used as inputs of memberObjects
DnTwoCn == <<"C", "n", "=", "J", ",", "C", "n", "=", "n">>
SampleDns == {DnJ, DnNJ, DnNoCn, DnTwoCn}

UrlProbes ==
    {[NoProbe EXCEPT !.fn = "getUrl", !.url = cfg] :
        cfg \in {UrlStr("a"), UrlStr("b"), UrlOther}
                \cup {UrlArr(q) : q \in SeqsUpTo({"", "a", "b"}, MaxUrls)}}
DnProbes ==
    {[NoProbe EXCEPT !.fn = "extractCNFromDN", !.dn = d] :
        d \in {Undefined} \cup {Str(q) : q \in SeqsUpTo(DnAlphabet, MaxDnLen)}}
MemberProbes ==
    {[NoProbe EXCEPT !.fn = "memberObjects", !.member = m] :
        m \in {MemberAbsent} \cup {MemberString(d) : d \in SampleDns}
              \cup {MemberList(q) : q \in SeqsUpTo(SampleDns, MaxMembers)}}

InitFn ==
    /\ adClient
    /\ params = [url |-> UrlOther, userSearchAttributes |-> {}]
    /\ probe \in UrlProbes \cup DnProbes \cup MemberProbes
    /\ answer = NoAnswer

Answered(cbs, members) ==
    /\ answer' = [done |-> TRUE, cbs |-> cbs, members |-> members]
    /\ UNCHANGED <<masterClient, masterBound, userClient, userBound, params,
                   call, log, pending, created, probe>>

ApplyGetUrl ==
    /\ probe.fn = "getUrl" /\ ~answer.done
    /\ \E r \in RandomsFor(probe.url) : Answered(getUrl(probe.url, r), <<>>)

ApplyExtractCNFromDN ==
    /\ probe.fn = "extractCNFromDN" /\ ~answer.done
    /\ Answered(extractCNFromDN(probe.dn), <<>>)

ApplyMemberObjects ==
    /\ probe.fn = "memberObjects" /\ ~answer.done
    /\ Answered(<<>>, memberObjects(probe.member))

NextFn == ApplyGetUrl \/ ApplyExtractCNFromDN \/ ApplyMemberObjects

SpecFn == InitFn /\ [][NextFn]_vars

(***************************************************************************)
(* Properties                                                              *)
(***************************************************************************)
IsAuthUser == call.kind = "authUser"
Errors(q) == \A i \in DOMAIN q : q[i].err # NoErr
UserNotFound == "Error: User not found"

\* C1: when the user-session bind of an authUser call has failed, every
\* outcome the caller receives is an error; no callback without error.
C1_BindFailureNeverSucceeds ==
    (IsAuthUser /\ call.userBindFailed) => Errors(call.outcomes)

\* the call has come to rest: nothing is in flight and nothing was raised
AtRest == pending = {} /\ ~call.thrown

\* C2: an authUser call invokes its caller's callback exactly once: never
\* twice, and once when the call has come to rest.
C2_ExactlyOneOutcome ==
    IsAuthUser =>
        /\ Len(call.outcomes) <= 1
        /\ AtRest => Len(call.outcomes) = 1

\* C3: every outcome of an authUser call is delivered after close has been
\* called and has run its callback.
C3_OutcomeAfterClose ==
    IsAuthUser => \A i \in DOMAIN call.outcomes : call.outcomes[i].closed >= 1

\* C4: close is invoked exactly once per authUser call: never twice, and
\* once when the call has come to rest.
C4_CloseExactlyOnce ==
    IsAuthUser =>
        /\ call.closes <= 1
        /\ AtRest => call.closes = 1

\* C5: when the user bind succeeded and the user search ended with status 0
\* and zero or several entries, authUserDn and authUser deliver only errors.
C5_CardinalityIsFailure ==
    (/\ call.kind \in {"authUser", "authUserDn"}
     /\ call.userBindOk
     /\ call.userMatches >= 0 /\ call.userMatches # 1)
        => Errors(call.outcomes)

\* C6: when the member lookup of an authUser call succeeded and no member's
\* cn equals the username, the call delivers the "User not found" error, no
\* outcome without error, and no bind was requested on the user session; if
\* the master bind had succeeded too, that error is the only outcome.
NoMemberMatches ==
    /\ IsAuthUser /\ call.resolved
    /\ \A i \in DOMAIN call.members : call.members[i].cn # call.username
C6_UnknownUserNeverBinds ==
    NoMemberMatches =>
        /\ call.userBinds = 0
        /\ ~call.userBindOk /\ ~call.userBindFailed
        /\ call.outcomes # <<>>
        /\ call.outcomes[Len(call.outcomes)].err = UserNotFound
        /\ Errors(call.outcomes)
        /\ call.masterBindOk => Len(call.outcomes) = 1
C6_Witness ==
    /\ NoMemberMatches
    /\ call.members # <<>>
    /\ call.masterBindOk
    /\ Len(call.outcomes) = 1
    /\ call.outcomes[1].err = UserNotFound

\* C7: when the master bind of an authUser call succeeded, a master unbind
\* has been requested before any outcome is delivered, and the bound flag is
\* false at that time.
C7_MasterReleasedBeforeOutcome ==
    (IsAuthUser /\ call.masterBindOk) =>
        /\ \A i \in DOMAIN call.outcomes : call.outcomes[i].munb >= 1
        /\ call.outcomes # <<>> => ~masterBound

\* C8: for an endpoint list, getUrl answers with an element of the compacted
\* list when that list is non-empty and with an error when it is empty; it
\* never answers with an undefined url and no error.
Elements(q) == {q[i] : i \in DOMAIN q}
C8_SelectsFromCompactedList ==
    (probe.fn = "getUrl" /\ answer.done /\ probe.url.type = "array") =>
        /\ Len(answer.cbs) = 1
        /\ IF compact(probe.url.list) # <<>>
           THEN /\ answer.cbs[1].err = NoErr
                /\ answer.cbs[1].val.def
                /\ answer.cbs[1].val.s \in Elements(compact(probe.url.list))
           ELSE answer.cbs[1].err # NoErr

\* the components of dn that start with cn=, case-insensitively
CnComponents(dn) ==
    SelectSeq(split(toLowerCase(dn), ","), LAMBDA w : startsWith(w, CnPrefix))
\* the first of them without its three-character prefix
ExpectedCn(dn) ==
    LET w == CnComponents(dn)[1] IN SubSeq(w, Len(CnPrefix) + 1, Len(w))

\* C9: memberObjects holds exactly one descriptor per DN of the member
\* attribute, in order, with that dn and the cn token extracted from it.
C9_OneDescriptorPerDn ==
    (probe.fn = "memberObjects" /\ answer.done) =>
        /\ Len(answer.members) = Len(probe.member.list)
        /\ \A i \in DOMAIN answer.members :
             /\ answer.members[i].dn = probe.member.list[i]
             /\ CnComponents(probe.member.list[i]) # <<>>
             /\ answer.members[i].cn = Str(ExpectedCn(probe.member.list[i]))

\* C10: for a dn with a cn= component, extractCNFromDN delivers exactly one
\* result, the lower-cased first such component without its cn= prefix; for
\* an empty or missing dn it delivers exactly one error.
C10_ExtractsLeadingCn ==
    (probe.fn = "extractCNFromDN" /\ answer.done) =>
        /\ (probe.dn.def /\ CnComponents(probe.dn.s) # <<>>) =>
               answer.cbs = <<[err |-> NoErr, val |-> Str(ExpectedCn(probe.dn.s))]>>
        /\ (~probe.dn.def \/ probe.dn.s = <<>>) =>
               (Len(answer.cbs) = 1 /\ answer.cbs[1].err # NoErr)

\* C11: when an authUser call's user bind succeeded and its user search ended
\* with exactly one entry, the call delivers a result without error, and every
\* such result holds exactly the entry's pairs whose key is listed in
\* userSearchAttributes.
Keys(obj) == {kv[1] : kv \in obj}
OneUserFound == IsAuthUser /\ call.userBindOk /\ call.userMatches = 1
C11_OnlyConfiguredAttributes ==
    OneUserFound =>
        /\ \E i \in DOMAIN call.outcomes : call.outcomes[i].err = NoErr
        /\ \A i \in DOMAIN call.outcomes :
             call.outcomes[i].err = NoErr =>
                /\ call.outcomes[i].res.kind = "user"
                /\ Keys(call.outcomes[i].res.user) \subseteq params.userSearchAttributes
                /\ call.outcomes[i].res.user \subseteq call.userEntry
                /\ \A kv \in call.userEntry :
                     kv[1] \in params.userSearchAttributes =>
                         kv \in call.outcomes[i].res.user
C11_Witness ==
    /\ OneUserFound
    /\ Keys(call.userEntry) \ params.userSearchAttributes # {}
    /\ \E i \in DOMAIN call.outcomes :
         /\ call.outcomes[i].err = NoErr
         /\ call.outcomes[i].res.user # {}

\* C12: every direct close call, the second of two in a row included, raises
\* nothing, runs its callback exactly once and without error, and leaves
\* masterBound false.
C12_CloseIsIdempotent ==
    call.kind = "close" =>
        /\ ~call.thrown
        /\ call.closes = 1
        /\ Len(call.outcomes) = 1
        /\ call.outcomes[1].err = NoErr
        /\ ~masterBound
C12_Witness ==
    /\ Len(log) >= 3
    /\ log[Len(log) - 2] = "bindMaster"
    /\ log[Len(log) - 1] = "close"
    /\ log[Len(log)] = "close"
    /\ call.kind = "close"
    /\ masterClient
    /\ Len(call.outcomes) = 1

IsGetMembers == call.kind = "getMembersOfGroupDN"
Last(q) == q[Len(q)]
UnexpectedMatchCount == "Error: unexpected number of matches"

\* C13: when the group search of a getMembersOfGroupDN call ended with status
\* 0 and no entry, the call delivers no error and an empty sequence of
\* members.
C13_NoGroupIsEmptySequence ==
    (IsGetMembers /\ call.groupMatches = 0) =>
        /\ call.outcomes # <<>>
        /\ Last(call.outcomes).err = NoErr
        /\ Last(call.outcomes).res = Members(<<>>)

\* C14: when the group search of a getMembersOfGroupDN call ended with status
\* 0 and more than one entry, the call delivers the "unexpected number of
\* matches" error with no members, and no outcome without error; after an
\* accepted master bind that error is the only outcome.
C14_SeveralGroupsIsFailure ==
    (IsGetMembers /\ call.groupMatches > 1) =>
        /\ call.outcomes # <<>>
        /\ Last(call.outcomes).err = UnexpectedMatchCount
        /\ Last(call.outcomes).res = NoResult
        /\ Errors(call.outcomes)
        /\ call.masterBindOk => Len(call.outcomes) = 1
C14_Witness ==
    /\ IsGetMembers /\ call.groupMatches = 2
    /\ call.masterBindOk
    /\ call.outcomes = <<[err |-> UnexpectedMatchCount, res |-> NoResult,
                          closed |-> 0, munb |-> 0, uunb |-> 0]>>

BindError == "InvalidCredentialsError"
NoValidUrl == "No valid url given"

\* C15: when the master bind of an authUser call has failed, no group search
\* and no user bind is requested in that call and the bind error is its one
\* outcome.
C15_MasterBindFailureShortCircuits ==
    (IsAuthUser /\ call.masterBindFailed) =>
        /\ call.groupSearches = 0
        /\ call.userBinds = 0
        /\ Len(call.outcomes) = 1
        /\ call.outcomes[1].err = BindError

\* C16: with a url that is neither a list nor a string, a call that needs a
\* connection creates none, requests no bind and no search, makes no call on
\* an absent client (which would raise), and delivers the "No valid url
\* given" error as its one outcome.
NeedsConnection ==
    call.kind \in {"bindMaster", "getMembersOfGroupDN", "authUserDn", "authUser"}
C16_NoValidEndpointIsFatal ==
    (params.url.type = "other" /\ NeedsConnection) =>
        /\ created.master = 0 /\ created.user = 0
        /\ ~masterClient /\ ~userClient
        /\ call.masterBinds = 0 /\ call.userBinds = 0 /\ call.groupSearches = 0
        /\ ~call.thrown
        /\ Len(call.outcomes) = 1
        /\ call.outcomes[1].err = NoValidUrl

\* C17: a bindMaster whose bind was accepted leaves masterBound true; a
\* bindMaster or getMembersOfGroupDN that begins while an accepted master
\* bind is held (no close since) requests no bind; after a failed bindMaster
\* masterBound is false.
C17_BoundMasterIsNotRebound ==
    /\ (call.kind = "bindMaster" /\ call.masterBindOk) => masterBound
    /\ (call.kind \in {"bindMaster", "getMembersOfGroupDN"} /\ call.heldAtStart) =>
           call.masterBinds = 0
    /\ (call.kind = "bindMaster" /\ call.masterBindFailed) => ~masterBound

\* C18 as claimed: once the user bind of a call has succeeded, every outcome
\* authUserDn delivers comes after an unbind of the user client.
C18_UnboundBeforeEveryOutcome ==
    call.userBindOk =>
        \A i \in DOMAIN call.authDn : call.authDn[i].uunb >= 1

\* C18 as amended: once the user bind has succeeded, the outcomes authUserDn
\* delivers for a search that ended with status 0 (one, zero or several
\* entries) come after the unbind of the user client has been requested and
\* answered; the outcomes for a search error or a non-zero end status come
\* with no unbind requested.
AfterEnd == {NoErr, UnexpectedMatchCount}
C18_UnboundAfterCleanEnd ==
    call.userBindOk =>
        \A i \in DOMAIN call.authDn :
            IF call.authDn[i].err \in AfterEnd
            THEN call.authDn[i].uunb = 1 /\ call.userMatches >= 0
            ELSE call.authDn[i].uunb = 0
C18_Witness ==
    /\ call.userBindOk
    /\ \E i \in DOMAIN call.authDn :
         /\ call.authDn[i].err = UnexpectedMatchCount
         /\ call.authDn[i].uunb = 1
    /\ call.userMatches = 2

\* C19: over any sequence of calls on the instance, ldapjs.createClient is
\* called at most once for the master client and at most once for the user
\* client.
C19_ClientsCreatedOnce ==
    created.master <= 1 /\ created.user <= 1
C19_Witness ==
    /\ created.master = 1 /\ created.user = 1
    /\ Len(log) >= 3
    /\ call.kind = "authUserDn"
    /\ call.userBinds = 1
    /\ \E i \in 1..(Len(log) - 1) : log[i] \in {"bindMaster", "authUser"}

\* C20: a bound flag is never true while its client is absent.
C20_BoundImpliesClient ==
    /\ masterBound => masterClient
    /\ userBound => userClient
C20_Witness ==
    /\ ~masterClient /\ ~masterBound
    /\ ~userClient /\ ~userBound
    /\ call.kind = "bindMaster"
    /\ call.outcomes # <<>>

====
